---- MODULE Spec2Model ----
(***************************************************************************)
(* The tag index of libblkid (lib/blkid/tag.c): the tags of each device,   *)
(* the per-name head buckets of the cache, the TYPE/LABEL/UUID shortcuts   *)
(* of each device, blkid_set_tag and blkid_find_dev_with_tag.              *)
(*                                                                         *)
(* Pointers are modelled by small integers: a struct blkid_struct_tag is   *)
(* a tag id, a device is a device number, NULL is 0.  A char * that points *)
(* at the bit_val buffer of a tag is modelled by the id of that tag; when  *)
(* the buffer is released every such pointer becomes DANGLING (in C the    *)
(* pointer keeps its bits and refers to freed memory).                     *)
(***************************************************************************)
EXTENDS Integers, Sequences, FiniteSets, TLC

VARIABLES
    tag,          \* the allocated struct blkid_struct_tag: id -> [bit_name, bit_val, bit_dev]
    bid_tags,     \* dev -> the list dev->bid_tags, a sequence of tag ids
    bid_type,     \* dev -> dev->bid_type  (NULL, DANGLING or the tag whose bit_val it points at)
    bid_label,    \* dev -> dev->bid_label
    bid_uuid,     \* dev -> dev->bid_uuid
    bid_flags,    \* dev -> dev->bid_flags, a set of flag names
    bid_pri,      \* dev -> dev->bid_pri
    bid_cache,    \* dev -> dev->bid_cache (CACHE or NULL)
    bic_devs,     \* the devices of the cache that have not been freed
    bic_tags,     \* the list cache->bic_tags: a sequence of heads [bit_name, bit_names]
    bic_flags,    \* cache->bic_flags, a set of flag names
    crashed,      \* the process has dereferenced an invalid pointer and is gone
    call,         \* the last call of blkid_set_tag: its branch and return value
    pc,           \* position of the running blkid_find_dev_with_tag ("idle" when none runs)
    loc,          \* its arguments and locals: type, value, head, found, dev, pri
    probes,       \* number of blkid_probe_all calls made by the running/last query
    result,       \* what the last blkid_find_dev_with_tag returned
    iter,         \* the struct blkid_struct_tag_iterate a caller holds, and what it has yielded
    parsed        \* the last call of blkid_parse_tag_string: token, return value, *ret_type, *ret_val

vars == << tag, bid_tags, bid_type, bid_label, bid_uuid, bid_flags, bid_pri,
           bid_cache, bic_devs, bic_tags, bic_flags, crashed,
           call, pc, loc, probes, result, iter, parsed >>

----------------------------------------------------------------------------
(* Bounds of the model *)

\* longest tag list of one device
MaxTags == 2
\* number of head buckets the cache list can hold
MaxHeads == 3
\* longest value string, and largest vlength, passed to blkid_set_tag
MaxLen == 2
\* number of blkid_probe_all calls after which the model stops a query
MaxProbes == 2
\* number of blkid_set_tag calls that built the index a query starts from
MaxSetup == 2
\* longest token passed to blkid_parse_tag_string
MaxTok == 5

----------------------------------------------------------------------------
(* Values of the program *)

NULL == 0
\* a pointer to memory that has been freed
DANGLING == -1
\* the outcome of dereferencing an invalid pointer
SEGV == -2
\* the value of a local variable that was never assigned
UNINIT == -3
\* a pointer that refers to no object of the program
GARBAGE == -4
\* the address of the cache
CACHE == 1
\* the address of the list head dev->bid_tags, where a walk of the list ends
HEADPTR == -5
\* the address of the struct blkid_struct_tag_iterate the caller holds
ITER == 1
TAG_ITERATE_MAGIC == 27600972

\* the devices of the cache, in the order of its device list
DevSeq == << 1, 2 >>
Devs == { DevSeq[i] : i \in 1 .. Len(DevSeq) }
TagIds == 1 .. MaxTags * Len(DevSeq)

Names == {"TYPE", "LABEL", "UUID"}
\* a null char * where a name is expected
NULLNAME == "(null)"

\* strings are sequences of characters; the values passed in are prefixes of Alphabet
Alphabet == << "a", "b", "c", "d" >>
InputValues == { SubSeq(Alphabet, 1, n) : n \in 1 .. MaxLen }
\* a null char * where a value is expected
NULLSTR == << "(null)" >>

BLKID_BID_FL_MTYPE == "BLKID_BID_FL_MTYPE"
BLKID_BIC_FL_CHANGED == "BLKID_BIC_FL_CHANGED"
BLKID_BIC_FL_PROBED == "BLKID_BIC_FL_PROBED"

BLKID_ERR_MEM == "BLKID_ERR_MEM"
BLKID_ERR_PARAM == "BLKID_ERR_PARAM"
OK == "0"

\* the allocations of blkid_set_tag, in the order the code makes them
AllocPoints == {"val", "tag", "name", "head", "headname"}
\* the allocation failures a call is run under: none, or one
FailSets == {{}} \cup {{p} : p \in AllocPoints}

----------------------------------------------------------------------------
(* The index as one value, so that the functions of tag.c are operators *)

St == [ tag |-> tag, bid_tags |-> bid_tags, bid_type |-> bid_type,
        bid_label |-> bid_label, bid_uuid |-> bid_uuid, bid_flags |-> bid_flags,
        bid_pri |-> bid_pri, bid_cache |-> bid_cache, bic_devs |-> bic_devs,
        bic_tags |-> bic_tags, bic_flags |-> bic_flags ]

Install(S) ==
    /\ tag' = S.tag
    /\ bid_tags' = S.bid_tags
    /\ bid_type' = S.bid_type
    /\ bid_label' = S.bid_label
    /\ bid_uuid' = S.bid_uuid
    /\ bid_flags' = S.bid_flags
    /\ bid_pri' = S.bid_pri
    /\ bid_cache' = S.bid_cache
    /\ bic_devs' = S.bic_devs
    /\ bic_tags' = S.bic_tags
    /\ bic_flags' = S.bic_flags

\* the variables hold the index S (used by Init)
Holds(S) ==
    /\ tag = S.tag
    /\ bid_tags = S.bid_tags
    /\ bid_type = S.bid_type
    /\ bid_label = S.bid_label
    /\ bid_uuid = S.bid_uuid
    /\ bid_flags = S.bid_flags
    /\ bid_pri = S.bid_pri
    /\ bid_cache = S.bid_cache
    /\ bic_devs = S.bic_devs
    /\ bic_tags = S.bic_tags
    /\ bic_flags = S.bic_flags

Min(a, b) == IF a < b THEN a ELSE b

\* list_del: the sequence without the node x
RECURSIVE list_del(_, _)
list_del(list, x) ==
    IF list = << >> THEN << >>
    ELSE IF Head(list) = x THEN list_del(Tail(list), x)
    ELSE << Head(list) >> \o list_del(Tail(list), x)

\* blkid_strndup: a copy of at most length characters of s; NULL for a NULL s
blkid_strndup(s, length) ==
    IF s = NULLSTR THEN NULLSTR ELSE SubSeq(s, 1, Min(length, Len(s)))

\* calloc in blkid_new_tag: the lowest free struct
blkid_new_tag(S) ==
    CHOOSE t \in TagIds \ DOMAIN S.tag : \A u \in TagIds \ DOMAIN S.tag : t <= u

\* a pointer into the bit_val buffer of tag t, once that buffer is freed
Released(ptr, t) == IF ptr = t THEN DANGLING ELSE ptr

\* free(t->bit_val): the shortcuts that point at the buffer now dangle
FreeVal(S, t) ==
    [S EXCEPT !.bid_type  = [d \in Devs |-> Released(S.bid_type[d], t)],
              !.bid_label = [d \in Devs |-> Released(S.bid_label[d], t)],
              !.bid_uuid  = [d \in Devs |-> Released(S.bid_uuid[d], t)]]

\* blkid_free_tag without list_del(&tag->bit_names)
blkid_free_tag_keeps_bucket(S, t) ==
    LET S1 == FreeVal(S, t) IN
    [S1 EXCEPT
        !.bid_tags = [d \in Devs |-> list_del(S.bid_tags[d], t)],
        !.tag = [u \in DOMAIN S.tag \ {t} |-> S.tag[u]]]

\* blkid_free_tag of a device tag: unlink from the device list and from the
\* bucket, free the name, the value and the struct
blkid_free_tag(S, t) ==
    LET S1 == FreeVal(S, t) IN
    [S1 EXCEPT
        !.bid_tags = [d \in Devs |-> list_del(S.bid_tags[d], t)],
        !.bic_tags = [i \in 1 .. Len(S.bic_tags) |->
                         [S.bic_tags[i] EXCEPT !.bit_names = list_del(@, t)]],
        !.tag = [u \in DOMAIN S.tag \ {t} |-> S.tag[u]]]

\* blkid_find_tag_dev: the first tag of dev named type; strcmp on a tag whose
\* bit_name is NULL dereferences a null pointer
RECURSIVE find_tag_from(_, _, _)
find_tag_from(S, list, type) ==
    IF list = << >> THEN NULL
    ELSE IF S.tag[Head(list)].bit_name = NULLNAME THEN SEGV
    ELSE IF S.tag[Head(list)].bit_name = type THEN Head(list)
    ELSE find_tag_from(S, Tail(list), type)

\* blkid_find_tag_dev with the test of strcmp inverted: the first tag of dev
\* whose name differs from type
RECURSIVE find_other_from(_, _, _)
find_other_from(S, list, type) ==
    IF list = << >> THEN NULL
    ELSE IF S.tag[Head(list)].bit_name = NULLNAME THEN SEGV
    ELSE IF S.tag[Head(list)].bit_name # type THEN Head(list)
    ELSE find_other_from(S, Tail(list), type)

blkid_find_tag_dev_inverted(S, dev, type) ==
    IF dev = NULL \/ type = NULLNAME THEN NULL
    ELSE find_other_from(S, S.bid_tags[dev], type)

blkid_find_tag_dev(S, dev, type) ==
    IF dev = NULL \/ type = NULLNAME THEN NULL
    ELSE find_tag_from(S, S.bid_tags[dev], type)

\* blkid_find_head_cache: the position in cache->bic_tags of the first head
\* named type, NULL when there is none or type is NULL
blkid_find_head_cache(S, type) ==
    IF type = NULLNAME THEN NULL
    ELSE IF \E i \in 1 .. Len(S.bic_tags) : S.bic_tags[i].bit_name = type
         THEN CHOOSE i \in 1 .. Len(S.bic_tags) :
                  /\ S.bic_tags[i].bit_name = type
                  /\ \A j \in 1 .. i - 1 : S.bic_tags[j].bit_name # type
         ELSE NULL

\* Addresses carry no meaning beyond identity: after a call the structs are
\* renamed, keeping their order, so that the allocated ones are 1 .. n.
Renamed(S, p) ==
    IF p \in DOMAIN S.tag THEN Cardinality({u \in DOMAIN S.tag : u <= p}) ELSE p

RenamedList(S, list) == [i \in 1 .. Len(list) |-> Renamed(S, list[i])]

Normalise(S) ==
    IF DOMAIN S.tag = 1 .. Cardinality(DOMAIN S.tag) THEN S
    ELSE
      [S EXCEPT
        !.tag = [k \in 1 .. Cardinality(DOMAIN S.tag) |->
                    S.tag[CHOOSE u \in DOMAIN S.tag : Renamed(S, u) = k]],
        !.bid_tags = [d \in Devs |-> RenamedList(S, S.bid_tags[d])],
        !.bic_tags = [i \in 1 .. Len(S.bic_tags) |->
                         [S.bic_tags[i] EXCEPT !.bit_names = RenamedList(S, @)]],
        !.bid_type = [d \in Devs |-> Renamed(S, S.bid_type[d])],
        !.bid_label = [d \in Devs |-> Renamed(S, S.bid_label[d])],
        !.bid_uuid = [d \in Devs |-> Renamed(S, S.bid_uuid[d])]]

----------------------------------------------------------------------------
(* blkid_set_tag *)

Res(S, ret, path, oom) == [st |-> S, ret |-> ret, path |-> path, oom |-> oom]

\* link_tags without the !val test of line 177: bid_type is written only
\* when it is NULL
link_tags_keeps_type(S, dev, name, val) ==
    LET S1 == IF name = "TYPE" /\ S.bid_type[dev] = NULL
                  THEN [S EXCEPT !.bid_type[dev] = val]
              ELSE IF name = "LABEL" THEN [S EXCEPT !.bid_label[dev] = val]
              ELSE IF name = "UUID" THEN [S EXCEPT !.bid_uuid[dev] = val]
              ELSE S
    IN  IF S1.bid_cache[dev] # NULL
            THEN [S1 EXCEPT !.bic_flags = @ \cup {BLKID_BIC_FL_CHANGED}]
            ELSE S1

\* link_tags: (lines 175-186); val is NULL or the tag that now owns the value
link_tags(S, dev, name, val) ==
    LET S1 == IF name = "TYPE" /\ (val = NULL \/ S.bid_type[dev] = NULL)
                  THEN [S EXCEPT !.bid_type[dev] = val]
              ELSE IF name = "LABEL" THEN [S EXCEPT !.bid_label[dev] = val]
              ELSE IF name = "UUID" THEN [S EXCEPT !.bid_uuid[dev] = val]
              ELSE S
    IN  IF S1.bid_cache[dev] # NULL
            THEN [S1 EXCEPT !.bic_flags = @ \cup {BLKID_BIC_FL_CHANGED}]
            ELSE S1

\* errout: (lines 188-195); a head allocated by this call is not yet linked
errout(S, t) ==
    Res(IF t # NULL THEN blkid_free_tag(S, t) ELSE S, BLKID_ERR_MEM, "errout", TRUE)

\* the delete mode without goto repeat: only the first tag found is freed
delete_all_once(S, dev, name) ==
    LET t == blkid_find_tag_dev(S, dev, name) IN
    IF t = SEGV THEN Res(S, OK, "segv", FALSE)
    ELSE Res(link_tags(IF t # NULL THEN blkid_free_tag(S, t) ELSE S, dev, name, NULL),
             OK, "delete", FALSE)

\* the repeat loop of the delete mode (lines 121-130)
RECURSIVE delete_all(_, _, _)
delete_all(S, dev, name) ==
    LET t == blkid_find_tag_dev(S, dev, name) IN
    IF t = SEGV THEN Res(S, OK, "segv", FALSE)
    ELSE IF t # NULL THEN delete_all(blkid_free_tag(S, t), dev, name)
    ELSE Res(link_tags(S, dev, name, NULL), OK, "delete", FALSE)

\* a replace that unlinks the tag and links it again at the tail of the list
replace_val_moves_to_tail(S, t, val) ==
    [FreeVal(S, t) EXCEPT !.tag[t].bit_val = val,
                          !.bid_tags[S.tag[t].bit_dev] = Append(list_del(@, t), t)]

\* free(t->bit_val); t->bit_val = val (lines 140-141)
replace_val(S, t, val) ==
    [FreeVal(S, t) EXCEPT !.tag[t].bit_val = val]

\* list_add_tail(&t->bit_names, &head->bit_names) (line 172)
add_to_bucket(S, head, t) ==
    [S EXCEPT !.bic_tags[head].bit_names = Append(@, t)]

\* existing tag not present, add to device (lines 147-173)
add_tag(S, dev, name, val, fail) ==
    IF "tag" \in fail THEN errout(S, NULL)
    ELSE IF Len(S.bid_tags[dev]) >= MaxTags THEN Res(S, OK, "full", FALSE)
    ELSE
      LET t  == blkid_new_tag(S)
          nm == IF "name" \in fail THEN NULLNAME ELSE name
          S1 == [S EXCEPT !.tag = @ @@ (t :> [bit_name |-> nm, bit_val |-> val,
                                               bit_dev |-> dev]),
                          !.bid_tags[dev] = Append(@, t)]
          head == blkid_find_head_cache(S1, nm)
      IN
        IF S1.bid_cache[dev] = NULL
            THEN Res(link_tags(S1, dev, name, t), OK, "insert", "name" \in fail)
        ELSE IF head # NULL
            THEN Res(link_tags(add_to_bucket(S1, head, t), dev, name, t),
                     OK, "insert", "name" \in fail)
        ELSE IF "head" \in fail \/ "headname" \in fail THEN errout(S1, t)
        ELSE IF Len(S1.bic_tags) >= MaxHeads THEN Res(S, OK, "full", FALSE)
        ELSE
          LET S2 == [S1 EXCEPT !.bic_tags =
                        Append(@, [bit_name |-> name, bit_names |-> << >>])]
          IN  Res(link_tags(add_to_bucket(S2, Len(S2.bic_tags), t), dev, name, t),
                  OK, "insert", "name" \in fail)

\* blkid_set_tag with goto link_tags in place of return 0 at lines 136-137
blkid_set_tag_relinks(S, dev, name, value, vlength, replace, fail) ==
    IF dev = NULL \/ name = NULLNAME THEN Res(S, BLKID_ERR_PARAM, "param", FALSE)
    ELSE IF value = NULLSTR THEN delete_all(S, dev, name)
    ELSE
      LET t   == blkid_find_tag_dev(S, dev, name)
          val == IF "val" \in fail THEN NULLSTR ELSE blkid_strndup(value, vlength)
      IN
        IF t = SEGV THEN Res(S, OK, "segv", FALSE)
        ELSE IF val = NULLSTR THEN errout(S, t)
        ELSE IF t # NULL /\ S.tag[t].bit_val = val
            THEN Res(link_tags(S, dev, name, t), OK, "same", FALSE)
        ELSE IF t # NULL /\ replace
            THEN Res(link_tags(replace_val(S, t, val), dev, name, t),
                     OK, "replace", FALSE)
        ELSE IF t # NULL
            THEN add_tag([S EXCEPT !.bid_flags[dev] = @ \cup {BLKID_BID_FL_MTYPE}],
                         dev, name, val, fail)
        ELSE add_tag(S, dev, name, val, fail)

\* int blkid_set_tag(dev, name, value, vlength, replace); fail is the set of
\* allocations that return NULL if the call makes them
blkid_set_tag(S, dev, name, value, vlength, replace, fail) ==
    IF dev = NULL \/ name = NULLNAME THEN Res(S, BLKID_ERR_PARAM, "param", FALSE)
    ELSE IF value = NULLSTR THEN delete_all(S, dev, name)
    ELSE
      LET t   == blkid_find_tag_dev(S, dev, name)
          val == IF "val" \in fail THEN NULLSTR ELSE blkid_strndup(value, vlength)
      IN
        IF t = SEGV THEN Res(S, OK, "segv", FALSE)
        ELSE IF val = NULLSTR THEN errout(S, t)
        ELSE IF t # NULL /\ S.tag[t].bit_val = val THEN Res(S, OK, "same", FALSE)
        ELSE IF t # NULL /\ replace
            THEN Res(link_tags(replace_val(S, t, val), dev, name, t),
                     OK, "replace", FALSE)
        ELSE IF t # NULL
            THEN add_tag([S EXCEPT !.bid_flags[dev] = @ \cup {BLKID_BID_FL_MTYPE}],
                         dev, name, val, fail)
        ELSE add_tag(S, dev, name, val, fail)

----------------------------------------------------------------------------
(* The state after construction: an empty cache with its devices *)

NoCall == [path |-> "none", ret |-> OK]

NoLoc == [type |-> NULLNAME, value |-> NULLSTR, head |-> NULL,
          found |-> NULL, dev |-> UNINIT, pri |-> -1, verify |-> "none"]

\* no iterator has been created: the caller holds no struct
NoIter == [h |-> NULL, magic |-> 0, dev |-> NULL, p |-> NULL, freed |-> FALSE,
           ended |-> FALSE, reported |-> FALSE, seen |-> << >>, muts |-> {}]

\* blkid_parse_tag_string has not been called
NoParse == [called |-> FALSE, token |-> NULLSTR, fail |-> {}, ret |-> 0,
            type |-> NULLSTR, val |-> NULLSTR]

EmptyIndex(pri, cache) ==
    [ tag |-> << >>, bid_tags |-> [d \in Devs |-> << >>],
      bid_type |-> [d \in Devs |-> NULL], bid_label |-> [d \in Devs |-> NULL],
      bid_uuid |-> [d \in Devs |-> NULL], bid_flags |-> [d \in Devs |-> {}],
      bid_pri |-> pri, bid_cache |-> cache, bic_devs |-> Devs,
      bic_tags |-> << >>, bic_flags |-> {} ]

InitRest ==
    /\ crashed = FALSE
    /\ call = NoCall
    /\ pc = "idle"
    /\ loc = NoLoc
    /\ probes = 0
    /\ result = NULL
    /\ iter = NoIter
    /\ parsed = NoParse

\* the calls that probing a device makes: set_tag(dev, name, value, 0-terminated)
RECURSIVE Probed(_, _, _)
Probed(S, dev, pairs) ==
    IF pairs = << >> THEN S
    ELSE Probed(blkid_set_tag(S, dev, pairs[1][1], pairs[1][2], Len(pairs[1][2]),
                              FALSE, {}).st, dev, Tail(pairs))

\* what device 2 may hold when the calls on device 1 begin
Probed2 == { << >>,
             << <<"TYPE", <<"a">> >>, <<"LABEL", <<"a">> >>, <<"TYPE", <<"a", "b">> >> >> }

\* Spec: device 2 has been probed, then blkid_set_tag is called on device 1
Callers == {1}

Init ==
    /\ \E pairs \in Probed2 :
          Holds(Normalise(Probed(EmptyIndex([d \in Devs |-> 0], [d \in Devs |-> CACHE]),
                                 2, pairs)))
    /\ InitRest

----------------------------------------------------------------------------
(* The callers of blkid_set_tag *)

UnchangedQuery == UNCHANGED << pc, loc, probes, result, iter, parsed >>

SetTagCall(dev, name, value, vlength, replace, fail) ==
    /\ pc = "idle"
    /\ ~crashed
    /\ \E r \in {blkid_set_tag(St, dev, name, value, vlength, replace, fail)} :
        /\ r.path # "full"
        /\ \E S \in {Normalise(r.st)} : Install(S)
        /\ crashed' = (r.path = "segv")
        /\ call' = [path |-> r.path, ret |-> r.ret]
    /\ UnchangedQuery

\* a call with a value: insert, replace or no-op
SetValue ==
    \E dev \in Callers, name \in Names, value \in InputValues,
       vlength \in 1 .. MaxLen, replace \in BOOLEAN, fail \in FailSets :
        SetTagCall(dev, name, value, vlength, replace, fail)

\* a call with a NULL value: delete all tags of that name
DeleteAll ==
    \E dev \in Callers, name \in Names, replace \in BOOLEAN :
        SetTagCall(dev, name, NULLSTR, 1, replace, {})

\* a call with a NULL device or a NULL name
BadArgs ==
    \E dev \in Callers \cup {NULL}, name \in Names \cup {NULLNAME},
       value \in InputValues \cup {NULLSTR} :
        /\ dev = NULL \/ name = NULLNAME
        /\ SetTagCall(dev, name, value, 1, FALSE, {})

Next == SetValue \/ DeleteAll \/ BadArgs

Spec == Init /\ [][Next]_vars

\* SpecOk: as Spec, with an allocator that never fails
SetValueOk ==
    \E dev \in Callers, name \in Names, value \in InputValues,
       vlength \in 1 .. MaxLen, replace \in BOOLEAN :
        SetTagCall(dev, name, value, vlength, replace, {})

\* the cache is written out (blkid_flush_cache): BLKID_BIC_FL_CHANGED is cleared
blkid_flush_cache(S) == [S EXCEPT !.bic_flags = @ \ {BLKID_BIC_FL_CHANGED}]

Flush ==
    /\ pc = "idle"
    /\ ~crashed
    /\ BLKID_BIC_FL_CHANGED \in bic_flags
    /\ \E S \in {blkid_flush_cache(St)} : Install(S)
    /\ call' = [path |-> "flush", ret |-> OK]
    /\ UNCHANGED crashed
    /\ UnchangedQuery

NextOk == SetValueOk \/ DeleteAll \/ BadArgs

SpecOk == Init /\ [][NextOk]_vars

\* SpecFlush: calls that insert, replace and delete TYPE and LABEL tags, with
\* an allocator that never fails and a cache that is written out between calls
SetValueFlush ==
    \E dev \in Callers, name \in {"TYPE", "LABEL"}, value \in InputValues,
       replace \in BOOLEAN :
        SetTagCall(dev, name, value, MaxLen, replace, {})

DeleteFlush ==
    \E dev \in Callers, name \in {"TYPE", "LABEL"} :
        SetTagCall(dev, name, NULLSTR, 1, FALSE, {})

NextFlush == SetValueFlush \/ DeleteFlush \/ Flush

SpecFlush == Init /\ [][NextFlush]_vars

----------------------------------------------------------------------------
(* blkid_find_dev_with_tag *)

\* the loop over the bucket with >= for >: the last of equal priority wins
RECURSIVE scan_bucket_ge(_, _, _, _)
scan_bucket_ge(S, bucket, value, acc) ==
    IF bucket = << >> THEN acc
    ELSE LET tmp == Head(bucket) IN
         IF S.tag[tmp].bit_val = value /\ S.bid_pri[S.tag[tmp].bit_dev] >= acc.pri
             THEN scan_bucket_ge(S, Tail(bucket), value,
                                 [found |-> tmp, dev |-> S.tag[tmp].bit_dev,
                                  pri |-> S.bid_pri[S.tag[tmp].bit_dev]])
             ELSE scan_bucket_ge(S, Tail(bucket), value, acc)

\* the loop over the bucket (lines 336-346): acc is [found, dev, pri]
RECURSIVE scan_bucket(_, _, _, _)
scan_bucket(S, bucket, value, acc) ==
    IF bucket = << >> THEN acc
    ELSE LET tmp == Head(bucket) IN
         IF S.tag[tmp].bit_val = value /\ S.bid_pri[S.tag[tmp].bit_dev] > acc.pri
             THEN scan_bucket(S, Tail(bucket), value,
                              [found |-> tmp, dev |-> S.tag[tmp].bit_dev,
                               pri |-> S.bid_pri[S.tag[tmp].bit_dev]])
             ELSE scan_bucket(S, Tail(bucket), value, acc)

\* try_again: (lines 330-347); dev keeps the value it had
try_again(S, l) ==
    LET head == blkid_find_head_cache(S, l.type)
        acc  == IF head = NULL
                    THEN [found |-> NULL, dev |-> l.dev, pri |-> -1]
                    ELSE scan_bucket(S, S.bic_tags[head].bit_names, l.value,
                                     [found |-> NULL, dev |-> l.dev, pri |-> -1])
    IN  [l EXCEPT !.head = head, !.found = acc.found, !.dev = acc.dev,
                  !.pri = acc.pri]

\* blkid_free_dev: the device and all its tags are freed
RECURSIVE free_tags(_, _)
free_tags(S, list) ==
    IF list = << >> THEN S ELSE free_tags(blkid_free_tag(S, Head(list)), Tail(list))

blkid_free_dev(S, dev) ==
    LET S1 == free_tags(S, S.bid_tags[dev]) IN
    [S1 EXCEPT !.bic_devs = @ \ {dev}, !.bid_type[dev] = NULL,
               !.bid_label[dev] = NULL, !.bid_uuid[dev] = NULL,
               !.bid_flags[dev] = {}]

\* blkid_verify_devname(cache, dev): what revalidating dev can do to the index
\* and return.  how is "keep" (dev is returned as it is), "gone" (dev no longer
\* exists: it is freed and NULL is returned), "retag" (a tag of dev gets the
\* value v) or "untag" (the tags of dev named name are deleted).
blkid_verify_devname(S, dev, how, name, v) ==
    IF dev = NULL THEN [st |-> S, dev |-> NULL]
    ELSE IF how = "gone" THEN [st |-> blkid_free_dev(S, dev), dev |-> NULL]
    ELSE IF how = "retag"
        THEN [st |-> blkid_set_tag(S, dev, name, v, Len(v), TRUE, {}).st, dev |-> dev]
    ELSE IF how = "untag"
        THEN [st |-> blkid_set_tag(S, dev, name, NULLSTR, 0, TRUE, {}).st, dev |-> dev]
    ELSE [st |-> S, dev |-> dev]

VerifyHow == {"keep", "gone", "retag", "untag"}

\* the devices that carry the tag type=value
Carriers(S, type, value) ==
    { d \in S.bic_devs : \E i \in 1 .. Len(S.bid_tags[d]) :
          /\ S.tag[S.bid_tags[d][i]].bit_name = type
          /\ S.tag[S.bid_tags[d][i]].bit_val = value }

UnchangedCall == UNCHANGED << call, iter, parsed >>

\* blkid_find_dev_with_tag(cache, type, value) is entered (lines 316-328)
FindCall ==
    \E type \in {"LABEL"}, value \in InputValues :
        /\ pc = "idle"
        /\ ~crashed
        /\ pc' = "try_again"
        /\ loc' = [NoLoc EXCEPT !.type = type, !.value = value]
        /\ probes' = 0
        /\ UNCHANGED << tag, bid_tags, bid_type, bid_label, bid_uuid, bid_flags,
                        bid_pri, bid_cache, bic_devs, bic_tags, bic_flags,
                        crashed, result >>
        /\ UnchangedCall

\* a query with a NULL type or value returns NULL at once (lines 325-326)
FindBadArgs ==
    \E type \in {"LABEL", NULLNAME}, value \in InputValues \cup {NULLSTR} :
        /\ type = NULLNAME \/ value = NULLSTR
        /\ pc = "idle"
        /\ ~crashed
        /\ pc' = "done"
        /\ loc' = [NoLoc EXCEPT !.type = type, !.value = value]
        /\ result' = NULL
        /\ probes' = 0
        /\ UNCHANGED << tag, bid_tags, bid_type, bid_label, bid_uuid, bid_flags,
                        bid_pri, bid_cache, bic_devs, bic_tags, bic_flags, crashed >>
        /\ UnchangedCall

\* try_again: the bucket is scanned (lines 330-347)
Scan ==
    /\ pc = "try_again"
    /\ pc' = "verify"
    /\ loc' = try_again(St, loc)
    /\ UNCHANGED << tag, bid_tags, bid_type, bid_label, bid_uuid, bid_flags,
                    bid_pri, bid_cache, bic_devs, bic_tags, bic_flags,
                    crashed, probes, result >>
    /\ UnchangedCall

\* dev = blkid_verify_devname(cache, dev) (line 348).  A dev that was never
\* assigned holds whatever the stack held: NULL, the address of a device, or
\* an address that is no device, which the verifier cannot dereference.
Verify ==
    \E arg \in (IF loc.dev = UNINIT THEN {NULL, GARBAGE} \cup bic_devs ELSE {loc.dev}),
       how \in VerifyHow :
      \E v \in (IF how = "retag" THEN InputValues ELSE {NULLSTR}) :
        /\ pc = "verify"
        /\ ~crashed
        /\ arg \in {NULL, GARBAGE} => how = "keep"
        /\ IF arg = GARBAGE
             THEN /\ crashed' = TRUE
                  /\ pc' = pc
                  /\ loc' = [loc EXCEPT !.dev = arg, !.verify = "segv"]
                  /\ UNCHANGED << tag, bid_tags, bid_type, bid_label, bid_uuid,
                                  bid_flags, bid_pri, bid_cache, bic_devs,
                                  bic_tags, bic_flags >>
             ELSE \E r \in {blkid_verify_devname(St, arg, how, loc.type, v)} :
                  /\ Install(r.st)
                  /\ crashed' = FALSE
                  /\ pc' = "recheck"
                  /\ loc' = [loc EXCEPT
                               !.dev = r.dev,
                               !.found = IF loc.found = NULL \/ loc.found \in DOMAIN r.st.tag
                                             THEN loc.found ELSE DANGLING,
                               !.verify = IF arg = NULL THEN "null" ELSE how]
        /\ UNCHANGED << probes, result >>
        /\ UnchangedCall

\* line 349 without the comparison: the selected tag always passes
Strcmp_equal(S, found, value) ==
    IF found = NULL THEN {"segv"} ELSE {"equal"}

\* the outcomes of strcmp(found->bit_val, value) (line 349): found may be
\* NULL, and it may point at a tag that the verifier has freed
Strcmp(S, found, value) ==
    IF found = NULL THEN {"segv"}
    ELSE IF found = DANGLING THEN {"equal", "differ", "segv"}
    ELSE IF S.tag[found].bit_val = value THEN {"equal"} ELSE {"differ"}

\* lines 349-356: the selected tag is compared again, then the query retries
\* after a full probe or returns
Recheck ==
    \E cmp \in (IF loc.dev = NULL THEN {"none"} ELSE Strcmp(St, loc.found, loc.value)) :
        /\ pc = "recheck"
        /\ ~crashed
        /\ IF cmp = "segv"
             THEN /\ crashed' = TRUE
                  /\ UNCHANGED << pc, loc, result >>
             ELSE LET dev == IF cmp = "differ" THEN NULL ELSE loc.dev IN
                  /\ crashed' = FALSE
                  /\ loc' = [loc EXCEPT !.dev = dev]
                  /\ IF (loc.head = NULL \/ dev = NULL)
                        /\ BLKID_BIC_FL_PROBED \notin bic_flags
                       THEN pc' = "probe" /\ result' = result
                       ELSE pc' = "done" /\ result' = dev
        /\ UNCHANGED << tag, bid_tags, bid_type, bid_label, bid_uuid, bid_flags,
                        bid_pri, bid_cache, bic_devs, bic_tags, bic_flags, probes >>
        /\ UnchangedCall

\* blkid_probe_all(cache): the prober finds nothing (dev = NULL) or finds the
\* tag asked for on device dev, and sets BLKID_BIC_FL_PROBED or not
blkid_probe_all(S, dev, type, value, done) ==
    LET S1 == IF dev = NULL THEN S
              ELSE blkid_set_tag(S, dev, type, value, Len(value), TRUE, {}).st
    IN  IF done THEN [S1 EXCEPT !.bic_flags = @ \cup {BLKID_BIC_FL_PROBED}] ELSE S1

\* blkid_probe_all(cache); goto try_again (lines 353-354)
ProbeAll ==
    \E dev \in bic_devs \cup {NULL}, done \in BOOLEAN :
        /\ pc = "probe"
        /\ ~crashed
        /\ probes < MaxProbes
        /\ \E S \in {blkid_probe_all(St, dev, loc.type, loc.value, done)} : Install(S)
        /\ probes' = probes + 1
        /\ pc' = "try_again"
        /\ UNCHANGED << loc, crashed, result >>
        /\ UnchangedCall

\* the priorities a device can have
PriRange == -1 .. 1

\* the indexes that at most k calls set_tag(dev, "LABEL", v) build
RECURSIVE Populated(_)
Populated(k) ==
    IF k = 0 THEN { EmptyIndex([d \in Devs |-> 0], [d \in Devs |-> CACHE]) }
    ELSE LET P == Populated(k - 1) IN
         P \cup { blkid_set_tag(S, d, "LABEL", v, Len(v), FALSE, {}).st :
                      S \in P, d \in Devs, v \in InputValues }

\* SpecFind: one query on an index that set_tag calls have built, with any
\* priorities, probed or not
InitFind ==
    /\ \E S \in Populated(MaxSetup), pri \in [Devs -> PriRange], probed \in BOOLEAN :
          Holds([S EXCEPT !.bid_pri = pri,
                          !.bic_flags = IF probed THEN @ \cup {BLKID_BIC_FL_PROBED}
                                                  ELSE @])
    /\ InitRest

NextFind == FindCall \/ FindBadArgs \/ Scan \/ Verify \/ Recheck \/ ProbeAll

SpecFind == InitFind /\ [][NextFind]_vars

----------------------------------------------------------------------------
(* blkid_tag_iterate_begin, blkid_tag_next, blkid_tag_iterate_end *)

\* dev->bid_tags.next: the first tag of the list, or the list head itself
ListFirst(S, dev) ==
    IF S.bid_tags[dev] = << >> THEN HEADPTR ELSE Head(S.bid_tags[dev])

\* p->next for the node of tag p: the tag after p in its list, or the list head
ListNext(S, p) ==
    LET list == S.bid_tags[S.tag[p].bit_dev]
        i    == CHOOSE k \in 1 .. Len(list) : list[k] = p
    IN  IF i = Len(list) THEN HEADPTR ELSE list[i + 1]

\* blkid_tag_iterate_begin(dev) (lines 266-277); ok: malloc returned a struct
blkid_tag_iterate_begin(S, it, dev, ok) ==
    IF ok THEN [it EXCEPT !.h = ITER, !.magic = TAG_ITERATE_MAGIC, !.dev = dev,
                          !.p = ListFirst(S, dev), !.freed = FALSE]
          ELSE [it EXCEPT !.h = NULL]

\* blkid_tag_next(iter, &type, &value) (lines 282-297): type and value point
\* into the tag they are read from
blkid_tag_next(S, it) ==
    IF it.h = NULL \/ it.magic # TAG_ITERATE_MAGIC \/ it.p = HEADPTR
        THEN [ret |-> -1, type |-> NULL, value |-> NULL, it |-> it]
    ELSE IF it.p \notin DOMAIN S.tag
        THEN [ret |-> SEGV, type |-> NULL, value |-> NULL, it |-> it]
    ELSE [ret |-> 0, type |-> it.p, value |-> it.p,
          it |-> [it EXCEPT !.p = ListNext(S, it.p)]]

\* blkid_tag_iterate_end(iter) (lines 299-305)
blkid_tag_iterate_end(it) ==
    IF it.h = NULL \/ it.magic # TAG_ITERATE_MAGIC THEN it
    ELSE [it EXCEPT !.magic = 0, !.freed = TRUE]

\* a pointer to tag p after a call left the index S: freed tags leave
\* dangling pointers, the others follow the renaming of Normalise
RenamedPtr(S, p) ==
    IF p > 0 /\ p \notin DOMAIN S.tag THEN DANGLING ELSE Renamed(S, p)

UnchangedIndex ==
    UNCHANGED << tag, bid_tags, bid_type, bid_label, bid_uuid, bid_flags,
                 bid_pri, bid_cache, bic_devs, bic_tags, bic_flags >>

\* the caller creates its iterator on a device
IterBegin ==
    \E dev \in Callers, ok \in BOOLEAN :
        /\ pc = "idle"
        /\ ~crashed
        /\ iter.h = NULL
        /\ iter' = blkid_tag_iterate_begin(St, iter, dev, ok)
        /\ UnchangedIndex
        /\ UNCHANGED << crashed, call, pc, loc, probes, result, parsed >>

\* the caller calls blkid_tag_next on the struct it holds, ended or not.  A
\* cursor that points at a freed tag reads freed memory: the call crashes or
\* yields what the memory holds.  seen records the tags the iterator yielded
\* before it was ended; reported, that it returned -1.
IterNext ==
    \E garbage \in BOOLEAN :
        /\ pc = "idle"
        /\ ~crashed
        /\ iter.h # NULL
        /\ LET r == blkid_tag_next(St, iter) IN
           IF r.ret = SEGV
               THEN /\ iter' = iter
                    /\ crashed' = ~garbage
               ELSE /\ ~garbage
                    /\ crashed' = FALSE
                    /\ iter' = IF iter.ended THEN r.it
                               ELSE [r.it EXCEPT
                                       !.seen = IF r.ret = 0 THEN Append(@, r.value) ELSE @,
                                       !.reported = @ \/ r.ret = -1]
        /\ UnchangedIndex
        /\ UNCHANGED << call, pc, loc, probes, result, parsed >>

\* the caller ends its iterator; what it had yielded is no longer followed
IterEnd ==
    /\ pc = "idle"
    /\ ~crashed
    /\ iter.h # NULL
    /\ ~iter.ended
    /\ iter' = [blkid_tag_iterate_end(iter) EXCEPT !.ended = TRUE, !.seen = << >>,
                                                   !.muts = {}, !.reported = FALSE]
    /\ UnchangedIndex
    /\ UNCHANGED << crashed, call, pc, loc, probes, result, parsed >>

\* another blkid_tag_iterate_begin(dev) whose malloc returns the struct that
\* blkid_tag_iterate_end freed
IterBeginAgain ==
    \E dev \in Devs :
        /\ pc = "idle"
        /\ ~crashed
        /\ iter.freed
        /\ iter' = blkid_tag_iterate_begin(St, iter, dev, TRUE)
        /\ UnchangedIndex
        /\ UNCHANGED << crashed, call, pc, loc, probes, result, parsed >>

\* the names blkid_set_tag is called with while an iterator is held
IterNames == {"TYPE", "LABEL"}
\* the values the caller stores while it iterates: one value and a second one
\* to replace it with
IterValues == { << "a" >>, << "a", "b" >> }

\* the sequence list without the pointers to freed tags, renamed as Normalise does
RenamedLive(S, list) ==
    LET Live(t) == t \in DOMAIN S.tag IN RenamedList(S, SelectSeq(list, Live))

\* a blkid_set_tag call before or while the iterator is held; muts records the
\* kinds of change made to the iterator's device since the iterator was created
IterMutate(dev, name, value, replace) ==
    /\ pc = "idle"
    /\ ~crashed
    /\ \E r \in {blkid_set_tag(St, dev, name, value, MaxLen, replace, {})} :
        /\ r.path # "full"
        /\ \E S \in {Normalise(r.st)} : Install(S)
        /\ call' = [path |-> r.path, ret |-> r.ret]
        /\ iter' = [iter EXCEPT
              !.p = RenamedPtr(r.st, @),
              !.seen = RenamedLive(r.st, @),
              !.muts = IF iter.h = NULL \/ iter.ended \/ dev # iter.dev THEN @
                       ELSE IF r.st.bid_tags[dev] # bid_tags[dev] \/ r.path = "replace"
                           THEN @ \cup {r.path}
                       ELSE @]
    /\ UNCHANGED << crashed, pc, loc, probes, result, parsed >>

\* blkid_set_tag on the iterator's device: insert, replace, delete-all
IterSetTag ==
    \E dev \in Callers, name \in IterNames, value \in IterValues \cup {NULLSTR},
       replace \in BOOLEAN :
        IterMutate(dev, name, value, replace)

\* a delete-all on another device
IterDeleteOther ==
    \E dev \in Devs \ Callers, name \in IterNames :
        IterMutate(dev, name, NULLSTR, FALSE)

NextIter ==
    IterBegin \/ IterNext \/ IterEnd \/ IterBeginAgain \/ IterSetTag \/ IterDeleteOther

\* SpecIter: a caller holds one iterator while blkid_set_tag changes the index
SpecIter == Init /\ [][NextIter]_vars

----------------------------------------------------------------------------
(* blkid_parse_tag_string *)

\* the characters of a token: the separator, the two quotes, and a letter
TokenChars == {"=", "\"", "'", "a"}

RECURSIVE Strings(_)
Strings(n) ==
    IF n = 0 THEN { << >> }
    ELSE LET T == Strings(n - 1) IN
         T \cup { Append(t, c) : t \in { u \in T : Len(u) = n - 1 }, c \in TokenChars }

\* the tokens passed in: every string up to MaxTok characters, and NULL
Tokens == Strings(MaxTok) \cup { NULLSTR }

\* the allocations of blkid_parse_tag_string and the failures a call is run under
ParseFails == { {}, {"name"}, {"value"} }

\* strchr(s, c): the position of the first c in s, NULL when there is none
strchr(s, c) ==
    IF \E i \in 1 .. Len(s) : s[i] = c
        THEN CHOOSE i \in 1 .. Len(s) : s[i] = c /\ \A j \in 1 .. i - 1 : s[j] # c
        ELSE NULL

\* strchr used where strrchr is meant: the first c closes the quote
strrchr_first(s, c) == strchr(s, c)

\* strrchr(s, c): the position of the last c in s, NULL when there is none
strrchr(s, c) ==
    IF \E i \in 1 .. Len(s) : s[i] = c
        THEN CHOOSE i \in 1 .. Len(s) : s[i] = c /\ \A j \in i + 1 .. Len(s) : s[j] # c
        ELSE NULL

\* what a call leaves: the return value and, on success, *ret_type and *ret_val
ParseRes(ret, type, val) == [ret |-> ret, type |-> type, val |-> val]

\* int blkid_parse_tag_string(token, ret_type, ret_val) (lines 209-241)
blkid_parse_tag_string(token, fail) ==
    IF token = NULLSTR THEN ParseRes(-1, NULLSTR, NULLSTR)
    ELSE LET cp == strchr(token, "=") IN
    IF cp = NULL THEN ParseRes(-1, NULLSTR, NULLSTR)
    ELSE IF "name" \in fail THEN ParseRes(-1, NULLSTR, NULLSTR)
    ELSE
      LET name   == SubSeq(token, 1, cp - 1)
          value  == SubSeq(token, cp + 1, Len(token))
          quoted == value # << >> /\ value[1] \in {"\"", "'"}
          inner  == IF quoted THEN Tail(value) ELSE value
          close  == IF quoted THEN strrchr(inner, value[1]) ELSE NULL
      IN  IF quoted /\ close = NULL THEN ParseRes(-1, NULLSTR, NULLSTR)
          ELSE IF "value" \in fail THEN ParseRes(-1, NULLSTR, NULLSTR)
          ELSE ParseRes(0, name, IF quoted THEN SubSeq(inner, 1, close - 1) ELSE inner)

ParseCall ==
    \E token \in Tokens, fail \in ParseFails :
        /\ pc = "idle"
        /\ ~crashed
        /\ ~parsed.called
        /\ \E r \in {blkid_parse_tag_string(token, fail)} :
              parsed' = [called |-> TRUE, token |-> token, fail |-> fail,
                         ret |-> r.ret, type |-> r.type, val |-> r.val]
        /\ UNCHANGED << tag, bid_tags, bid_type, bid_label, bid_uuid, bid_flags,
                        bid_pri, bid_cache, bic_devs, bic_tags, bic_flags,
                        crashed, call, pc, loc, probes, result, iter >>

NextParse == ParseCall

\* SpecParse: one call of blkid_parse_tag_string, with any token
SpecParse == Init /\ [][NextParse]_vars

----------------------------------------------------------------------------
(* What the claims speak of *)

Count(list, x) == Cardinality({ i \in 1 .. Len(list) : list[i] = x })

\* the tags of dev named name, in list order
TagsNamed(S, dev, name) ==
    LET Is(t) == S.tag[t].bit_name = name IN SelectSeq(S.bid_tags[dev], Is)

\* the buckets (positions in cache->bic_tags) that hold tag t
BucketsOf(S, t) == { i \in 1 .. Len(S.bic_tags) : Count(S.bic_tags[i].bit_names, t) > 0 }

Shortcut(S, dev, name) ==
    IF name = "TYPE" THEN S.bid_type[dev]
    ELSE IF name = "LABEL" THEN S.bid_label[dev]
    ELSE S.bid_uuid[dev]

\* the strings a read through a shortcut can yield: freed memory holds anything
ShortcutReads(S, ptr) ==
    IF ptr = NULL THEN { NULLSTR }
    ELSE IF ptr = DANGLING THEN InputValues \cup { << "?" >> }
    ELSE { S.tag[ptr].bit_val }

\* the value of the first tag of dev named name, NULLSTR when there is none
FirstValue(S, dev, name) ==
    LET named == TagsNamed(S, dev, name) IN
    IF named = << >> THEN NULLSTR ELSE S.tag[named[1]].bit_val

WellLinked(S) ==
    /\ \A d \in Devs : \A k \in 1 .. Len(S.bid_tags[d]) :
          /\ S.bid_tags[d][k] \in DOMAIN S.tag
          /\ S.tag[S.bid_tags[d][k]].bit_dev = d
    /\ \A i \in 1 .. Len(S.bic_tags) : \A k \in 1 .. Len(S.bic_tags[i].bit_names) :
          LET t == S.bic_tags[i].bit_names[k] IN
          /\ t \in DOMAIN S.tag
          /\ Count(S.bid_tags[S.tag[t].bit_dev], t) = 1
    /\ \A t \in DOMAIN S.tag :
          /\ Count(S.bid_tags[S.tag[t].bit_dev], t) = 1
          /\ \A e \in Devs \ {S.tag[t].bit_dev} : Count(S.bid_tags[e], t) = 0
          /\ S.bid_cache[S.tag[t].bit_dev] # NULL =>
                /\ Cardinality(BucketsOf(S, t)) = 1
                /\ \A i \in BucketsOf(S, t) :
                      /\ Count(S.bic_tags[i].bit_names, t) = 1
                      /\ S.bic_tags[i].bit_name = S.tag[t].bit_name

\* C1: after any sequence of set_tag calls that insert, replace or delete
\* (no allocation fails), every tag is exactly once in the tag list of its
\* own device and in no other list, is in exactly one head bucket, whose name
\* is the tag's name, and every member of a bucket is in its device's list.
C1_WellLinked == WellLinked(St)

\* a delete-all has just removed tags, device 1 still has a tag, and some
\* bucket holds tags of both devices
C1_Witness ==
    /\ call.path = "delete"
    /\ bid_tags[1] # << >>
    /\ \E i \in 1 .. Len(bic_tags) :
          { tag[bic_tags[i].bit_names[k]].bit_dev :
                k \in 1 .. Len(bic_tags[i].bit_names) } = Devs

\* C2: after every set_tag operation, for each device and each name in
\* TYPE, LABEL, UUID, a read of the shortcut yields the value of the first
\* tag of that name in the device's list, or nothing if there is none.
C2_ShortcutIsFirst ==
    \A d \in bic_devs : \A n \in Names :
        ShortcutReads(St, Shortcut(St, d, n)) = { FirstValue(St, d, n) }

\* C3: no device holds two tags with the same name and the same value.
C3_NoDuplicate ==
    \A d \in Devs : \A i, j \in 1 .. Len(bid_tags[d]) :
        i < j => ~ ( /\ tag[bid_tags[d][i]].bit_name = tag[bid_tags[d][j]].bit_name
                     /\ tag[bid_tags[d][i]].bit_val = tag[bid_tags[d][j]].bit_val )

\* C4: a set_tag call in which an allocation fails returns -BLKID_ERR_MEM and
\* leaves the index exactly as it was: tags, values, buckets, flags, shortcuts.
C4_FailureRestores ==
    \A dev \in Callers, name \in Names, value \in InputValues,
       vlength \in 1 .. MaxLen, replace \in BOOLEAN, fail \in FailSets :
        LET r == blkid_set_tag(St, dev, name, value, vlength, replace, fail) IN
        r.oom => r.ret = BLKID_ERR_MEM /\ r.st = St

\* C9: set_tag(d, n, v, replace = 1) on a device with exactly one tag named n,
\* of another value, leaves exactly one tag named n, with value v, does not
\* set BLKID_BID_FL_MTYPE, and a read of the shortcut for n yields v.
C9_ReplaceShortcut ==
    \A d \in Callers, n \in Names, v \in InputValues, vlength \in 1 .. MaxLen :
        LET val   == blkid_strndup(v, vlength)
            named == TagsNamed(St, d, n)
            r     == blkid_set_tag(St, d, n, v, vlength, TRUE, {})
            after == TagsNamed(r.st, d, n)
        IN  (~crashed /\ Len(named) = 1 /\ tag[named[1]].bit_val # val) =>
              /\ r.ret = OK
              /\ Len(after) = 1
              /\ r.st.tag[after[1]].bit_val = val
              /\ r.st.bid_flags[d] = bid_flags[d]
              /\ ShortcutReads(r.st, Shortcut(r.st, d, n)) = { val }

\* C10: from every reachable index, set_tag(d, n, v, replace = 1) applied
\* twice leaves the same tags, tag order, buckets, shortcuts and flags, and
\* returns the same, as applied once.
C10_Idempotent ==
    \A d \in Callers, n \in Names, v \in InputValues, vlength \in 1 .. MaxLen :
        LET once  == blkid_set_tag(St, d, n, v, vlength, TRUE, {})
            twice == blkid_set_tag(once.st, d, n, v, vlength, TRUE, {})
        IN  once.path # "full" =>
              /\ twice.path # "full"
              /\ twice.st = once.st
              /\ twice.ret = once.ret

\* a replace = 1 call has just replaced the value of a tag of a device that
\* holds two tags
C10_Witness == call.path = "replace" /\ Len(bid_tags[1]) = 2

\* C5: when the query has returned, some device carries type=value and the
\* verifier confirmed what it was asked about without changing tags, the
\* result is a device that carries the tag and no carrier has a higher priority.
C5_HighestReturned ==
    ( /\ pc = "done"
      /\ loc.type # NULLNAME /\ loc.value # NULLSTR
      /\ loc.verify \in {"keep", "null"}
      /\ Carriers(St, loc.type, loc.value) # {} ) =>
        /\ result \in Carriers(St, loc.type, loc.value)
        /\ \A d \in Carriers(St, loc.type, loc.value) : bid_pri[d] <= bid_pri[result]

\* the positions of bucket b whose tag has the value asked for
Matching(S, b, value) == { k \in 1 .. Len(b) : S.tag[b[k]].bit_val = value }

\* C6: the device the scan selects has no matching device of higher priority
\* and is the first in bucket order among those of its priority; a device
\* that is returned is that device, and no device that carries the tag at the
\* return has a higher priority.
C6_PriorityAndTie ==
    /\ (pc = "verify" /\ loc.found # NULL) =>
          LET b == bic_tags[loc.head].bit_names IN
          /\ loc.dev = tag[loc.found].bit_dev
          /\ \A k \in Matching(St, b, loc.value) :
                \/ bid_pri[tag[b[k]].bit_dev] < bid_pri[loc.dev]
                \/ /\ bid_pri[tag[b[k]].bit_dev] = bid_pri[loc.dev]
                   /\ \E j \in 1 .. k : b[j] = loc.found
    /\ (pc = "done" /\ result # NULL /\ ~crashed) =>
          /\ result = loc.dev
          /\ loc.found # NULL
          /\ \A d \in Carriers(St, loc.type, loc.value) : bid_pri[d] <= bid_pri[result]

\* the query returned device 2, whose tag was inserted first, while device 1
\* carries the tag too, with the same priority
C6_Witness ==
    /\ pc = "done"
    /\ result = 2
    /\ bid_pri[1] = bid_pri[2]
    /\ Carriers(St, loc.type, loc.value) = {1, 2}

\* C7: a query makes at most one full probe, whatever the prober does: it
\* never stands before blkid_probe_all after having called it.
C7_ProbeAtMostOnce == probes <= 1 /\ (pc = "probe" => probes = 0)

\* C8: a device that is returned carries type=value at the return, and the
\* verifier is asked only about a device the current scan selected.
C8_ReturnedCarriesTag ==
    /\ (pc = "done" /\ result # NULL) => result \in Carriers(St, loc.type, loc.value)
    /\ (pc = "verify" /\ loc.found = NULL) => loc.dev = NULL

\* the sequence list without the tags of dev named name
Others(S, list, name) ==
    LET Keep(t) == S.tag[t].bit_name # name IN SelectSeq(list, Keep)

\* the sequence list without the tags in gone
Without(list, gone) ==
    LET Keep(t) == t \notin gone IN SelectSeq(list, Keep)

\* C13: set_tag(d, n, NULL) removes every tag of d named n from d's list and
\* from the buckets, and nothing else: the other tags of d keep their values
\* and order, the tags of the other devices and the heads are unchanged.
C13_DeleteAllFrame ==
    \A d \in Callers, n \in Names, replace \in BOOLEAN :
        LET r    == blkid_set_tag(St, d, n, NULLSTR, 0, replace, {})
            gone == { t \in DOMAIN tag : tag[t].bit_dev = d /\ tag[t].bit_name = n }
        IN  ~crashed =>
              /\ r.ret = OK
              /\ TagsNamed(r.st, d, n) = << >>
              /\ r.st.bid_tags[d] = Others(St, bid_tags[d], n)
              /\ \A e \in Devs \ {d} : r.st.bid_tags[e] = bid_tags[e]
              /\ DOMAIN r.st.tag = DOMAIN tag \ gone
              /\ \A t \in DOMAIN tag \ gone : r.st.tag[t] = tag[t]
              /\ Len(r.st.bic_tags) = Len(bic_tags)
              /\ \A i \in 1 .. Len(bic_tags) :
                    /\ r.st.bic_tags[i].bit_name = bic_tags[i].bit_name
                    /\ r.st.bic_tags[i].bit_names = Without(bic_tags[i].bit_names, gone)

\* device 1 holds two tags of one name and device 2 holds tags of that name
C13_Witness ==
    \E n \in Names : Len(TagsNamed(St, 1, n)) = 2 /\ TagsNamed(St, 2, n) # << >>

\* C14: after set_tag(d, n, NULL) the shortcut of d for n is NULL: it points
\* neither at a tag nor at the freed value of a tag the call destroyed.
C14_DeleteClearsShortcut ==
    \A d \in Callers, n \in Names, replace \in BOOLEAN :
        LET r == blkid_set_tag(St, d, n, NULLSTR, 0, replace, {}) IN
        ~crashed =>
            /\ Shortcut(r.st, d, n) = NULL
            /\ ShortcutReads(r.st, Shortcut(r.st, d, n)) = { NULLSTR }

\* device 1 holds a TYPE tag and its TYPE shortcut points at that tag's value
C14_Witness ==
    /\ TagsNamed(St, 1, "TYPE") # << >>
    /\ bid_type[1] \in DOMAIN tag
    /\ bid_label[1] \in DOMAIN tag

\* C16: set_tag(d, n, v, replace = 0) on a device that holds one tag named n,
\* of another value, leaves both tags, the old one first; a read of the TYPE
\* shortcut yields the value of the first tag, a read of the LABEL or UUID
\* shortcut yields v.
C16_SecondInsert ==
    \A d \in Callers, n \in Names, v \in InputValues, vlength \in 1 .. MaxLen :
        LET val   == blkid_strndup(v, vlength)
            named == TagsNamed(St, d, n)
            r     == blkid_set_tag(St, d, n, v, vlength, FALSE, {})
            after == TagsNamed(r.st, d, n)
        IN  ( /\ ~crashed
              /\ Len(named) = 1
              /\ tag[named[1]].bit_val # val
              /\ r.path # "full" ) =>
              /\ r.ret = OK
              /\ Len(after) = 2
              /\ after[1] = named[1]
              /\ r.st.tag[after[1]].bit_val = tag[named[1]].bit_val
              /\ r.st.tag[after[2]].bit_val = val
              /\ r.st.bid_tags[d] = Append(bid_tags[d], after[2])
              /\ ShortcutReads(r.st, Shortcut(r.st, d, n)) =
                    { IF n = "TYPE" THEN tag[named[1]].bit_val ELSE val }

\* C17: a set_tag call sets BLKID_BID_FL_MTYPE exactly when it succeeds in
\* inserting, with replace = 0, a tag whose name the device already holds
\* with another value; every other call, a failing one included, leaves the
\* flags of the device as they were.
C17_MtypeExactly ==
    \A d \in Callers, n \in Names, v \in InputValues \cup {NULLSTR},
       vlength \in 1 .. MaxLen, replace \in BOOLEAN, fail \in FailSets :
        LET r == blkid_set_tag(St, d, n, v, vlength, replace, fail)
            t == blkid_find_tag_dev(St, d, n)
            second == /\ r.ret = OK
                      /\ r.path = "insert"
                      /\ ~replace
                      /\ t # NULL
        IN  (~crashed /\ r.path \notin {"full", "segv"}) =>
              IF second
                  THEN r.st.bid_flags[d] = bid_flags[d] \cup {BLKID_BID_FL_MTYPE}
                  ELSE r.st.bid_flags[d] = bid_flags[d]

\* C18: set_tag(d, n, v, replace) where the tag found for n on d already
\* holds v returns 0 and changes nothing; BLKID_BIC_FL_CHANGED stays as it
\* was, while a call that inserts, replaces or deletes sets it.
C18_SameValueNoOp ==
    \A d \in Callers, n \in Names, v \in InputValues,
       vlength \in 1 .. MaxLen, replace \in BOOLEAN :
        LET r == blkid_set_tag(St, d, n, v, vlength, replace, {})
            t == blkid_find_tag_dev(St, d, n)
        IN  ~crashed =>
              /\ (t # NULL /\ tag[t].bit_val = blkid_strndup(v, vlength)) =>
                    r.ret = OK /\ r.path = "same" /\ r.st = St
              /\ r.path \in {"insert", "replace"} =>
                    BLKID_BIC_FL_CHANGED \in r.st.bic_flags

\* a same-value call has just returned on a device with two tags while the
\* cache has no unwritten change
C18_Witness ==
    /\ call.path = "same"
    /\ Len(bid_tags[1]) = 2
    /\ BLKID_BIC_FL_CHANGED \notin bic_flags

\* C20: when BLKID_BIC_FL_PROBED is set and the verifier rejects the device
\* the scan selected (it returns NULL, or the selected tag no longer holds
\* the value), the query returns NULL without a second scan, also when
\* another device carries the tag.
C20_NoFallback ==
    ( /\ pc = "done"
      /\ loc.type # NULLNAME /\ loc.value # NULLSTR
      /\ probes = 0
      /\ BLKID_BIC_FL_PROBED \in bic_flags
      /\ loc.found # NULL
      /\ \/ loc.verify = "gone"
         \/ loc.found \in DOMAIN tag /\ tag[loc.found].bit_val # loc.value ) =>
        result = NULL

\* the verifier dropped the selected device, another device carries the tag,
\* and the query returned NULL
C20_Witness ==
    /\ pc = "done"
    /\ probes = 0
    /\ BLKID_BIC_FL_PROBED \in bic_flags
    /\ loc.verify = "gone"
    /\ Carriers(St, loc.type, loc.value) # {}
    /\ result = NULL

\* the positions of character c in string s
Positions(s, c) == { i \in 1 .. Len(s) : s[i] = c }

SetMin(A) == CHOOSE a \in A : \A b \in A : a <= b
SetMax(A) == CHOOSE a \in A : \A b \in A : b <= a

\* the text of token after its first =
AfterEq(token) == SubSeq(token, SetMin(Positions(token, "=")) + 1, Len(token))

\* the token has a = and its value opens with a quote
OpensQuote(token) ==
    /\ Positions(token, "=") # {}
    /\ AfterEq(token) # << >>
    /\ AfterEq(token)[1] \in {"\"", "'"}

\* the positions after the opening quote that hold the same quote character
Closers(token) ==
    { j \in 2 .. Len(AfterEq(token)) : AfterEq(token)[j] = AfterEq(token)[1] }

\* C15: when no allocation fails, the parse fails exactly when the token is
\* NULL, has no =, or its value opens with a quote that no later character
\* of the token repeats; otherwise the name is the text before the first =
\* and the value is the rest of the token, or, for a quoted value, the text
\* between the opening quote and the last occurrence of that quote (quotes
\* of either style in between are kept).
C15_ParseResult ==
    (parsed.called /\ parsed.fail = {}) =>
        LET token == parsed.token
            bad   == \/ token = NULLSTR
                     \/ Positions(token, "=") = {}
                     \/ OpensQuote(token) /\ Closers(token) = {}
        IN  IF bad THEN parsed.ret = -1
            ELSE /\ parsed.ret = 0
                 /\ parsed.type = SubSeq(token, 1, SetMin(Positions(token, "=")) - 1)
                 /\ parsed.val = IF OpensQuote(token)
                                     THEN SubSeq(AfterEq(token), 2, SetMax(Closers(token)) - 1)
                                     ELSE AfterEq(token)

\* a quoted value that holds a quote of each style has been parsed
C15_Witness ==
    /\ parsed.called
    /\ parsed.ret = 0
    /\ parsed.token = << "=", "\"", "'", "\"", "\"" >>
    /\ parsed.val = << "'", "\"" >>

\* the (name, value) pairs the following blkid_tag_next calls yield, up to the
\* call that returns -1, if nothing changes the index in between
RECURSIVE Drain(_, _)
Drain(S, it) ==
    LET r == blkid_tag_next(S, it) IN
    IF r.ret # 0 THEN << >>
    ELSE << << S.tag[r.type].bit_name, S.tag[r.value].bit_val >> >> \o Drain(S, r.it)

\* the (name, value) pairs of the tags of list, as they are now
Pairs(S, list) ==
    [i \in 1 .. Len(list) |-> << S.tag[list[i]].bit_name, S.tag[list[i]].bit_val >>]

\* the iterator the caller holds is in use: created and not ended
IterLive == iter.h # NULL /\ ~iter.ended /\ ~crashed

\* C11: while only insertions have changed the device since the iterator was
\* created and the iterator has not returned -1, what it has yielded is the
\* head of the device's list, in order, and the following next calls yield
\* all the rest of the list, tags appended after its creation included.
C11_InsertsObserved ==
    (IterLive /\ ~iter.reported /\ iter.muts \subseteq {"insert"}) =>
        LET list == bid_tags[iter.dev] IN
        /\ Len(iter.seen) <= Len(list)
        /\ iter.seen = SubSeq(list, 1, Len(iter.seen))
        /\ Drain(St, iter) = Pairs(St, SubSeq(list, Len(iter.seen) + 1, Len(list)))

\* C12: a next call on an iterator that has returned -1, or that the caller
\* has ended, returns -1 and leaves the cursor where it was, at every later
\* time.
C12_EndedRefuses ==
    (iter.h # NULL /\ ~crashed /\ (iter.ended \/ iter.reported)) =>
        LET r == blkid_tag_next(St, iter) IN
        /\ r.ret = -1
        /\ r.it = iter

\* C19: while only replaces and delete-alls have changed the device since
\* the iterator was created, and the tag under the cursor was not deleted,
\* the following next calls yield the tags of the device that the iterator
\* has not yielded, in list order, with the values they have now.
C19_SurvivesMutation ==
    (IterLive /\ iter.muts \subseteq {"replace", "delete"} /\ iter.p # DANGLING) =>
        LET yielded == { iter.seen[i] : i \in 1 .. Len(iter.seen) } IN
        Drain(St, iter) = Pairs(St, Without(bid_tags[iter.dev], yielded))

\* the iterator stands on the only tag left on its device; since its
\* creation a value of the device was replaced and a tag of it was deleted
C19_Witness ==
    /\ IterLive
    /\ iter.muts = {"replace", "delete"}
    /\ iter.p \in DOMAIN tag
    /\ Len(bid_tags[iter.dev]) = 1

====
